---- MODULE Spec2Model ----
(***************************************************************************)
(* Model of the epubs crate (src/src/lib.rs): the archive accessor Epub,   *)
(* the typed references Href, the payload decoding of the media kinds,     *)
(* the per-kind accessors of manifest items, and the document models that  *)
(* are read from and written to XML.                                       *)
(*                                                                         *)
(* Strings are sequences of one-character strings, byte vectors are        *)
(* sequences of integers in 0..255.                                        *)
(***************************************************************************)
EXTENDS Integers, Sequences, FiniteSets, TLC

VARIABLES
    input,      \* the zip container handed to Epub::new: entry name -> entry
    epub,       \* the Epub value: [archive |-> entries of the opened container]
    lastRead,   \* the last call of Epub::read and what it returned
    item,       \* a manifest Item and the results of its six accessors
    hrefOp,     \* an Href and the result of without_fragment on it
    doc         \* an XML text, what it parses to, and the re-serialisation

vars == <<input, epub, lastRead, item, hrefOp, doc>>

(***************************************************************************)
(* Bounds                                                                  *)
(***************************************************************************)
MaxPathLen == 2     \* longest relative path of a reference
MaxEntries == 1     \* most entries of a container
MaxBytes == 3       \* longest entry content
MaxUrlLen == 3      \* longest url given to without_fragment
MaxWidth == 3       \* most sibling elements of one tag in a document
MaxDepth == 2       \* deepest nesting of navigation points

PathChars == {"a", "#"}
ByteSamples == {65, 128, 160, 194, 224, 237, 240, 255}

SeqsUpTo(S, n) == UNION {[1..k -> S] : k \in 0..n}

(***************************************************************************)
(* Href                                                                    *)
(***************************************************************************)
\* Href::new: a reference is its url and its (phantom) media kind
Href_new(Media, url) == [url |-> url, media |-> Media]

Href_TOC == Href_new("DtbNcx", <<"t", "o", "c", ".", "n", "c", "x">>)

Href_CONTENT ==
    Href_new("Opf", <<"c", "o", "n", "t", "e", "n", "t", ".", "o", "p", "f">>)

\* str::split_once("#"): the index of the first '#', 0 when there is none
RECURSIVE FirstIndexFrom(_, _, _)
FirstIndexFrom(s, c, i) ==
    IF i > Len(s) THEN 0
    ELSE IF s[i] = c THEN i
    ELSE FirstIndexFrom(s, c, i + 1)

split_once(s, c) ==
    LET i == FirstIndexFrom(s, c, 1)
    IN  IF i = 0 THEN [some |-> FALSE, before |-> <<>>, after |-> <<>>]
        ELSE [some |-> TRUE,
              before |-> SubSeq(s, 1, i - 1),
              after |-> SubSeq(s, i + 1, Len(s))]

\* str::rsplit_once("#") in place of split_once
without_fragment_last(self) ==
    LET i == CHOOSE j \in 0..Len(self.url) :
                 /\ j > 0 => self.url[j] = "#"
                 /\ \A k \in (j + 1)..Len(self.url) : self.url[k] # "#"
    IN  Href_new(self.media,
                 IF i = 0 THEN self.url ELSE SubSeq(self.url, 1, i - 1))

without_fragment(self) ==
    LET sp == split_once(self.url, "#")
    IN  Href_new(self.media, IF sp.some THEN sp.before ELSE self.url)

(***************************************************************************)
(* Media kinds and payload decoding                                        *)
(***************************************************************************)
\* SVG taken for text, as the XML it is
MediaType_Value_svg_text(Media) ==
    IF Media \in {"Opf", "DtbNcx", "XHtml", "Css", "Svg"} THEN "Utf8String"
    ELSE "Vec<u8>"

\* media_type::MediaType::Value
MediaType_Value(Media) ==
    IF Media \in {"Opf", "DtbNcx", "XHtml", "Css"} THEN "Utf8String"
    ELSE "Vec<u8>"

IsCont(b) == b >= 128 /\ b <= 191

\* width of the UTF-8 sequence a first byte announces, 0 for no first byte
utf8_char_width(b) ==
    IF b < 128 THEN 1
    ELSE IF b >= 194 /\ b <= 223 THEN 2
    ELSE IF b >= 224 /\ b <= 239 THEN 3
    ELSE IF b >= 240 /\ b <= 244 THEN 4
    ELSE 0

\* the second byte a three- or four-byte first byte admits
SecondOk(first, second) ==
    \/ first = 224 /\ second >= 160 /\ second <= 191
    \/ first >= 225 /\ first <= 236 /\ IsCont(second)
    \/ first = 237 /\ second >= 128 /\ second <= 159
    \/ first >= 238 /\ first <= 239 /\ IsCont(second)
    \/ first = 240 /\ second >= 144 /\ second <= 191
    \/ first >= 241 /\ first <= 243 /\ IsCont(second)
    \/ first = 244 /\ second >= 128 /\ second <= 143

\* String::from_utf8's validation: one pass from index i, stops at the first
\* invalid sequence
RECURSIVE run_utf8_validation(_, _)
run_utf8_validation(v, i) ==
    IF i > Len(v) THEN TRUE
    ELSE
        LET w == utf8_char_width(v[i])
        IN  IF w = 0 \/ i + w - 1 > Len(v) THEN FALSE
            ELSE IF w = 1 THEN run_utf8_validation(v, i + 1)
            ELSE IF w = 2 THEN
                IsCont(v[i + 1]) /\ run_utf8_validation(v, i + 2)
            ELSE IF w = 3 THEN
                /\ SecondOk(v[i], v[i + 1])
                /\ IsCont(v[i + 2])
                /\ run_utf8_validation(v, i + 3)
            ELSE
                /\ SecondOk(v[i], v[i + 1])
                /\ IsCont(v[i + 2])
                /\ IsCont(v[i + 3])
                /\ run_utf8_validation(v, i + 4)

Ok(data) == [tag |-> "Ok", data |-> data, err |-> "none"]
Err(e) == [tag |-> "Err", data |-> <<>>, err |-> e]

\* a lossy decode: the text up to the first invalid sequence
Utf8String_try_from_lossy(value) ==
    LET k == CHOOSE j \in 0..Len(value) :
                 /\ run_utf8_validation(SubSeq(value, 1, j), 1)
                 /\ \A m \in (j + 1)..Len(value) :
                        ~run_utf8_validation(SubSeq(value, 1, m), 1)
    IN  Ok(SubSeq(value, 1, k))

\* a decode failure reported with the error of a failed lookup
Utf8String_try_from_notfound(value) ==
    IF run_utf8_validation(value, 1) THEN Ok(value)
    ELSE Err("ZipError::FileNotFound")

\* impl TryFrom<Vec<u8>> for Utf8String
Utf8String_try_from(value) ==
    IF run_utf8_validation(value, 1) THEN Ok(value) ELSE Err("FromUtf8Error")

\* bytes.try_into() at the payload type of the kind; Vec<u8> from Vec<u8>
\* is the reflexive conversion
try_into(Media, bytes) ==
    IF MediaType_Value(Media) = "Utf8String" THEN Utf8String_try_from(bytes)
    ELSE Ok(bytes)

(***************************************************************************)
(* Epub                                                                    *)
(***************************************************************************)
Prefix == <<"O", "E", "B", "P", "S", "/">>

Epub_new(in) == [archive |-> in]

\* a read that drops the container root
entry_path_bare(href) == href.url

\* a read that strips the fragment itself
entry_path_stripped(href) == Prefix \o without_fragment(href).url

\* the entry name Epub::read asks the archive for
entry_path(href) == Prefix \o href.url

\* ZipArchive::by_name: the entry of exactly that name
by_name(archive, path) ==
    IF path \in DOMAIN archive THEN Ok(archive[path])
    ELSE Err("ZipError::FileNotFound")

\* entry.read_to_end
read_to_end(entry) ==
    IF entry.readable THEN Ok(entry.data) ELSE Err("io::Error")

\* an accessor whose entries are taken out of the archive when read
EpubAfterRead_taken(self, href) ==
    [archive |->
        [n \in DOMAIN self.archive \ {entry_path(href)} |-> self.archive[n]]]

\* what Epub::read leaves in self
EpubAfterRead(self, href) == self

\* Epub::read: the value returned, with the names it asked the archive for
read(self, href) ==
    LET path == entry_path(href)
        found == by_name(self.archive, path)
        bytes == IF found.tag = "Ok" THEN read_to_end(found.data)
                 ELSE found
        res == IF bytes.tag = "Ok" THEN try_into(href.media, bytes.data)
               ELSE bytes
    IN  [ret |-> res, asked |-> {path}, self |-> EpubAfterRead(self, href)]

(***************************************************************************)
(* Manifest items                                                          *)
(***************************************************************************)
Some(h) == [some |-> TRUE, href |-> h]
None == [some |-> FALSE, href |-> Href_new("none", <<>>)]

\* Item::match_href
match_href(self, Media, media_type) ==
    IF self.media_type = media_type THEN Some(Href_new(Media, self.href))
    ELSE None

xhtml_href(self) == match_href(self, "XHtml", "application/xhtml+xml")

css_href(self) == match_href(self, "Css", "text/css")

png_href(self) == match_href(self, "Png", "image/png")

\* the accessor above it copied without its media type changed
jpeg_href_png(self) == match_href(self, "Jpeg", "image/png")

jpeg_href(self) == match_href(self, "Jpeg", "image/jpeg")

gif_href(self) == match_href(self, "Gif", "image/gif")

svg_href(self) == match_href(self, "Svg", "image/svg+xml")

\* the kinds an Item accessor hands out, in the order of the accessors
ItemKinds == <<"XHtml", "Css", "Png", "Jpeg", "Gif", "Svg">>

Accessors(self) ==
    <<xhtml_href(self), css_href(self), png_href(self),
      jpeg_href(self), gif_href(self), svg_href(self)>>

(***************************************************************************)
(* Inputs                                                                  *)
(***************************************************************************)
Range(s) == {s[i] : i \in DOMAIN s}

Paths == SeqsUpTo(PathChars, MaxPathLen)

\* the references a caller can hold: the two constants, and any path of a
\* manifest item, guide reference or navigation point at an item kind
Hrefs(P) ==
    {Href_CONTENT, Href_TOC}
        \cup {Href_new(k, p) : k \in Range(ItemKinds), p \in P}

\* entry names: every path under the root, and some outside it
Names ==
    {Prefix \o p : p \in Paths \cup {Href_CONTENT.url, Href_TOC.url}}
        \cup {p \in Paths : Len(p) = 1}

Entry(data, readable) == [data |-> data, readable |-> readable]

EntrySamples ==
    {Entry(<<65>>, TRUE), Entry(<<255>>, TRUE), Entry(<<65>>, FALSE)}

Containers(names, entries) ==
    UNION {[S -> entries] :
             S \in {T \in SUBSET names : Cardinality(T) <= MaxEntries}}

NoHref == Href_new("none", <<>>)
NoRead == [href |-> NoHref, ret |-> Err("none"), asked |-> {}, prev |-> "none"]
NoItem ==
    [self |-> [id |-> <<>>, media_type |-> "", href |-> <<>>],
     called |-> FALSE, got |-> <<>>]
NoHrefOp == [self |-> NoHref, called |-> FALSE, got |-> NoHref]
NoDoc == [kind |-> "none"]

(***************************************************************************)
(* Reading entries of a container                                          *)
(***************************************************************************)
InitRead ==
    /\ input \in Containers(Names, EntrySamples)
    /\ epub = Epub_new(input)
    /\ lastRead = NoRead
    /\ item = NoItem
    /\ hrefOp = NoHrefOp
    /\ doc = NoDoc

\* the record of a call of Epub::read, after the calls before it
Called(href) ==
    LET r == read(epub, href)
    IN  [href |-> href, ret |-> r.ret, asked |-> r.asked,
         prev |-> IF lastRead.href = NoHref THEN "none" ELSE lastRead.ret.tag]

\* epub.read(Href::CONTENT)
ReadContent ==
    /\ lastRead' = Called(Href_CONTENT)
    /\ epub' = read(epub, Href_CONTENT).self
    /\ UNCHANGED <<input, item, hrefOp, doc>>

\* epub.read(Href::TOC)
ReadToc ==
    /\ lastRead' = Called(Href_TOC)
    /\ epub' = read(epub, Href_TOC).self
    /\ UNCHANGED <<input, item, hrefOp, doc>>

\* a markup and an image reference of any path
ReadKinds == {"XHtml", "Png"}

\* epub.read of a reference taken from a document
ReadRef ==
    \E k \in ReadKinds, p \in Paths :
        /\ lastRead' = Called(Href_new(k, p))
        /\ epub' = read(epub, Href_new(k, p)).self
        /\ UNCHANGED <<input, item, hrefOp, doc>>

NextRead == ReadContent \/ ReadToc \/ ReadRef

SpecRead == InitRead /\ [][NextRead]_vars

(***************************************************************************)
(* Decoding: one entry of any content, read at every kind                  *)
(***************************************************************************)
DecodePaths == {<<"a">>}

\* longer contents: four-byte sequences at the ends of their ranges, and
\* an invalid byte after valid text
LongSamples ==
    {<<240, 160, 128, 128>>, <<240, 128, 128, 128>>, <<240, 144, 128, 128>>,
     <<244, 143, 191, 191>>, <<244, 144, 128, 128>>, <<245, 128, 128, 128>>,
     <<65, 194, 160, 255>>, <<65, 240, 160, 128, 128, 65>>}

DecodeEntries ==
    {Entry(d, TRUE) : d \in SeqsUpTo(ByteSamples, MaxBytes) \cup LongSamples}
        \cup {Entry(<<65>>, FALSE)}

InitDecode ==
    /\ \E n \in {entry_path(h) : h \in Hrefs(DecodePaths)},
          e \in DecodeEntries :
          input = [m \in {n} |-> e]
    /\ epub = Epub_new(input)
    /\ lastRead = NoRead
    /\ item = NoItem
    /\ hrefOp = NoHrefOp
    /\ doc = NoDoc

\* epub.read at each kind an Item accessor hands out
ReadRefAt ==
    \E k \in Range(ItemKinds), p \in DecodePaths :
        /\ lastRead' = Called(Href_new(k, p))
        /\ epub' = read(epub, Href_new(k, p)).self
        /\ UNCHANGED <<input, item, hrefOp, doc>>

NextDecode == ReadContent \/ ReadToc \/ ReadRefAt

SpecDecode == InitDecode /\ [][NextDecode]_vars

(***************************************************************************)
(* The accessors of a manifest item                                        *)
(***************************************************************************)
MediaTypeSamples ==
    {"application/xhtml+xml", "text/css", "image/png", "image/jpeg",
     "image/gif", "image/svg+xml", "application/x-dtbncx+xml",
     "Image/PNG", "image/jpg", ""}

Items ==
    [id : {<<"i">>, <<"j">>}, media_type : MediaTypeSamples, href : Paths]

InitItem ==
    /\ input = <<>>
    /\ epub = Epub_new(input)
    /\ lastRead = NoRead
    /\ \E it \in Items : item = [self |-> it, called |-> FALSE, got |-> <<>>]
    /\ hrefOp = NoHrefOp
    /\ doc = NoDoc

CallAccessors ==
    /\ ~item.called
    /\ item' = [item EXCEPT !.called = TRUE, !.got = Accessors(item.self)]
    /\ UNCHANGED <<input, epub, lastRead, hrefOp, doc>>

\* without_fragment on a reference an accessor returned
StripAccessed ==
    /\ item.called
    /\ \E i \in DOMAIN item.got :
          /\ item.got[i].some
          /\ hrefOp' = [self |-> item.got[i].href, called |-> TRUE,
                        got |-> without_fragment(item.got[i].href)]
    /\ UNCHANGED <<input, epub, lastRead, item, doc>>

NextItem == CallAccessors \/ StripAccessed

SpecItem == InitItem /\ [][NextItem]_vars

(***************************************************************************)
(* without_fragment on any reference                                       *)
(***************************************************************************)
InitHref ==
    /\ input = <<>>
    /\ epub = Epub_new(input)
    /\ lastRead = NoRead
    /\ item = NoItem
    /\ \E h \in Hrefs(SeqsUpTo(PathChars, MaxUrlLen)) :
          hrefOp = [self |-> h, called |-> FALSE, got |-> NoHref]
    /\ doc = NoDoc

Strip ==
    /\ ~hrefOp.called
    /\ hrefOp' = [hrefOp EXCEPT !.called = TRUE,
                                !.got = without_fragment(hrefOp.self)]
    /\ UNCHANGED <<input, epub, lastRead, item, doc>>

NextHref == Strip

SpecHref == InitHref /\ [][NextHref]_vars

(***************************************************************************)
(* XML texts                                                               *)
(*                                                                         *)
(* An XML text is the tree of its elements: each element has its tag, its  *)
(* attributes in order, its child elements in order and its text.          *)
(* Attribute values and text are kept as written, with the entities in.    *)
(***************************************************************************)
Element(tag, attrs, kids, text) ==
    [tag |-> tag, attrs |-> attrs, kids |-> kids, text |-> text]

Attribute(name, value) == [name |-> name, value |-> value]

EscapeChar(c) ==
    CASE c = "&" -> <<"&", "a", "m", "p", ";">>
      [] c = "<" -> <<"&", "l", "t", ";">>
      [] c = ">" -> <<"&", "g", "t", ";">>
      [] c = "'" -> <<"&", "a", "p", "o", "s", ";">>
      [] c = "\"" -> <<"&", "q", "u", "o", "t", ";">>
      [] OTHER -> <<c>>

RECURSIVE xml_escape(_)
xml_escape(s) ==
    IF s = <<>> THEN <<>> ELSE EscapeChar(Head(s)) \o xml_escape(Tail(s))

EntityChar(name) ==
    CASE name = <<"a", "m", "p">> -> "&"
      [] name = <<"l", "t">> -> "<"
      [] name = <<"g", "t">> -> ">"
      [] name = <<"a", "p", "o", "s">> -> "'"
      [] name = <<"q", "u", "o", "t">> -> "\""
      [] OTHER -> ""

RECURSIVE xml_unescape(_)
xml_unescape(raw) ==
    IF raw = <<>> THEN Ok(<<>>)
    ELSE IF Head(raw) # "&" THEN
        LET rest == xml_unescape(Tail(raw))
        IN  IF rest.tag = "Ok" THEN Ok(<<Head(raw)>> \o rest.data) ELSE rest
    ELSE
        LET semi == FirstIndexFrom(raw, ";", 1)
            c == IF semi = 0 THEN "" ELSE EntityChar(SubSeq(raw, 2, semi - 1))
            rest == IF c = "" THEN Err("XmlError")
                    ELSE xml_unescape(SubSeq(raw, semi + 1, Len(raw)))
        IN  IF rest.tag = "Ok" THEN Ok(<<c>> \o rest.data) ELSE rest

\* the child elements of a tag, in document order
KidsOf(el, tag) == SelectSeq(el.kids, LAMBDA k : k.tag = tag)

\* all of a sequence of results, or the failure of one
AllOk(rs) ==
    IF \A i \in DOMAIN rs : rs[i].tag = "Ok"
    THEN Ok([i \in DOMAIN rs |-> rs[i].data])
    ELSE Err("XmlError")

\* a required field once its occurrences are read: the last one
Required(rs) ==
    IF rs.tag = "Err" \/ rs.data = <<>> THEN Err("XmlError")
    ELSE Ok(rs.data[Len(rs.data)])

\* #[xml(attr = name)]
read_attr(el, name) ==
    LET as == SelectSeq(el.attrs, LAMBDA a : a.name = name)
    IN  Required(AllOk([i \in DOMAIN as |-> xml_unescape(as[i].value)]))

\* #[xml(flatten_text = tag)]
read_flatten_text(el, tag) ==
    LET ks == KidsOf(el, tag)
    IN  Required(AllOk([i \in DOMAIN ks |->
                           IF ks[i].kids = <<>> THEN xml_unescape(ks[i].text)
                           ELSE Err("XmlError")]))

write_flatten_text(tag, text) == Element(tag, <<>>, <<>>, xml_escape(text))

write_attribute(name, value) == Attribute(name, xml_escape(value))

(***************************************************************************)
(* Package document                                                        *)
(***************************************************************************)
ReadMetadata(el) ==
    LET title == read_flatten_text(el, "dc:title")
        language == read_flatten_text(el, "dc:language")
        identifier == read_flatten_text(el, "dc:identifier")
    IN  IF title.tag = "Ok" /\ language.tag = "Ok" /\ identifier.tag = "Ok"
        THEN Ok([title |-> title.data, language |-> language.data,
                 identifier |-> identifier.data])
        ELSE Err("XmlError")

WriteMetadata(v) ==
    Element("metadata", <<>>,
            <<write_flatten_text("dc:title", v.title),
              write_flatten_text("dc:language", v.language),
              write_flatten_text("dc:identifier", v.identifier)>>,
            <<>>)

ReadItem(el) ==
    LET id == read_attr(el, "id")
        media_type == read_attr(el, "media-type")
        href == read_attr(el, "href")
    IN  IF id.tag = "Ok" /\ media_type.tag = "Ok" /\ href.tag = "Ok"
        THEN Ok([id |-> id.data, media_type |-> media_type.data,
                 href |-> href.data])
        ELSE Err("XmlError")

WriteItem(v) ==
    Element("item",
            <<write_attribute("id", v.id),
              write_attribute("media-type", v.media_type),
              write_attribute("href", v.href)>>,
            <<>>, <<>>)

ReadManifest(el) ==
    LET ks == KidsOf(el, "item")
        items == AllOk([i \in DOMAIN ks |-> ReadItem(ks[i])])
    IN  IF items.tag = "Ok" THEN Ok([items |-> items.data]) ELSE items

WriteManifest(v) ==
    Element("manifest", <<>>,
            [i \in DOMAIN v.items |-> WriteItem(v.items[i])], <<>>)

ReadItemRef(el) ==
    LET id_ref == read_attr(el, "idref")
    IN  IF id_ref.tag = "Ok" THEN Ok([id_ref |-> id_ref.data]) ELSE id_ref

WriteItemRef(v) ==
    Element("itemref", <<write_attribute("idref", v.id_ref)>>, <<>>, <<>>)

\* a spine whose reader puts each itemref in front of the ones before it
ReadSpine_front(el) ==
    LET ks == KidsOf(el, "itemref")
        refs == AllOk([i \in DOMAIN ks |-> ReadItemRef(ks[Len(ks) + 1 - i])])
    IN  IF refs.tag = "Ok" THEN Ok([refs |-> refs.data]) ELSE refs

ReadSpine(el) ==
    LET ks == KidsOf(el, "itemref")
        refs == AllOk([i \in DOMAIN ks |-> ReadItemRef(ks[i])])
    IN  IF refs.tag = "Ok" THEN Ok([refs |-> refs.data]) ELSE refs

WriteSpine(v) ==
    Element("spine", <<>>,
            [i \in DOMAIN v.refs |-> WriteItemRef(v.refs[i])], <<>>)

ReadReference(el) ==
    LET kind == read_attr(el, "type")
        title == read_attr(el, "title")
        href == read_attr(el, "href")
    IN  IF kind.tag = "Ok" /\ title.tag = "Ok" /\ href.tag = "Ok"
        THEN Ok([kind |-> kind.data, title |-> title.data, href |-> href.data])
        ELSE Err("XmlError")

WriteReference(v) ==
    Element("reference",
            <<write_attribute("type", v.kind),
              write_attribute("title", v.title),
              write_attribute("href", v.href)>>,
            <<>>, <<>>)

ReadGuide(el) ==
    LET ks == KidsOf(el, "reference")
        references == AllOk([i \in DOMAIN ks |-> ReadReference(ks[i])])
    IN  IF references.tag = "Ok" THEN Ok([references |-> references.data])
        ELSE references

WriteGuide(v) ==
    Element("guide", <<>>,
            [i \in DOMAIN v.references |-> WriteReference(v.references[i])],
            <<>>)

ReadContentDoc(el) ==
    LET ms == KidsOf(el, "metadata")
        fs == KidsOf(el, "manifest")
        ss == KidsOf(el, "spine")
        gs == KidsOf(el, "guide")
        metadata == Required(AllOk([i \in DOMAIN ms |-> ReadMetadata(ms[i])]))
        manifest == Required(AllOk([i \in DOMAIN fs |-> ReadManifest(fs[i])]))
        spine == Required(AllOk([i \in DOMAIN ss |-> ReadSpine(ss[i])]))
        guide == Required(AllOk([i \in DOMAIN gs |-> ReadGuide(gs[i])]))
    IN  IF /\ el.tag = "package"
           /\ metadata.tag = "Ok" /\ manifest.tag = "Ok"
           /\ spine.tag = "Ok" /\ guide.tag = "Ok"
        THEN Ok([metadata |-> metadata.data, manifest |-> manifest.data,
                 spine |-> spine.data, guide |-> guide.data])
        ELSE Err("XmlError")

WriteContentDoc(v) ==
    Element("package", <<>>,
            <<WriteMetadata(v.metadata), WriteManifest(v.manifest),
              WriteSpine(v.spine), WriteGuide(v.guide)>>,
            <<>>)

(***************************************************************************)
(* Navigation document                                                     *)
(***************************************************************************)
ReadNavLabel(el) ==
    LET text == read_flatten_text(el, "text")
    IN  IF text.tag = "Ok" THEN Ok([text |-> text.data]) ELSE text

WriteNavLabel(v) ==
    Element("navLabel", <<>>, <<write_flatten_text("text", v.text)>>, <<>>)

ReadNavContent(el) ==
    LET src == read_attr(el, "src")
    IN  IF src.tag = "Ok" THEN Ok([src |-> src.data]) ELSE src

WriteNavContent(v) ==
    Element("content", <<write_attribute("src", v.src)>>, <<>>, <<>>)

RECURSIVE ReadNavPoint(_)

\* a navigation point whose reader puts each nested point in front of the
\* ones before it
ReadNavPoint_front(el) ==
    LET ls == KidsOf(el, "navLabel")
        cs == KidsOf(el, "content")
        ps == KidsOf(el, "navPoint")
        label == Required(AllOk([i \in DOMAIN ls |-> ReadNavLabel(ls[i])]))
        content == Required(AllOk([i \in DOMAIN cs |-> ReadNavContent(cs[i])]))
        children == AllOk([i \in DOMAIN ps |-> ReadNavPoint(ps[Len(ps) + 1 - i])])
    IN  IF label.tag = "Ok" /\ content.tag = "Ok" /\ children.tag = "Ok"
        THEN Ok([label |-> label.data, content |-> content.data,
                 children |-> children.data])
        ELSE Err("XmlError")

ReadNavPoint(el) ==
    LET ls == KidsOf(el, "navLabel")
        cs == KidsOf(el, "content")
        ps == KidsOf(el, "navPoint")
        label == Required(AllOk([i \in DOMAIN ls |-> ReadNavLabel(ls[i])]))
        content == Required(AllOk([i \in DOMAIN cs |-> ReadNavContent(cs[i])]))
        children == AllOk([i \in DOMAIN ps |-> ReadNavPoint(ps[i])])
    IN  IF label.tag = "Ok" /\ content.tag = "Ok" /\ children.tag = "Ok"
        THEN Ok([label |-> label.data, content |-> content.data,
                 children |-> children.data])
        ELSE Err("XmlError")

RECURSIVE WriteNavPoint(_)
WriteNavPoint(v) ==
    Element("navPoint", <<>>,
            <<WriteNavLabel(v.label), WriteNavContent(v.content)>>
                \o [i \in DOMAIN v.children |-> WriteNavPoint(v.children[i])],
            <<>>)

ReadNavMap(el) ==
    LET ps == KidsOf(el, "navPoint")
        points == AllOk([i \in DOMAIN ps |-> ReadNavPoint(ps[i])])
    IN  IF points.tag = "Ok" THEN Ok([points |-> points.data]) ELSE points

WriteNavMap(v) ==
    Element("navMap", <<>>,
            [i \in DOMAIN v.points |-> WriteNavPoint(v.points[i])], <<>>)

ReadTableOfContents(el) ==
    LET ms == KidsOf(el, "navMap")
        map == Required(AllOk([i \in DOMAIN ms |-> ReadNavMap(ms[i])]))
    IN  IF el.tag = "ncx" /\ map.tag = "Ok" THEN Ok([map |-> map.data])
        ELSE Err("XmlError")

WriteTableOfContents(v) == Element("ncx", <<>>, <<WriteNavMap(v.map)>>, <<>>)

(***************************************************************************)
(* Documents                                                               *)
(*                                                                         *)
(* The texts given to the parsers.  Every value in a text is made of the   *)
(* position of its element, so that siblings differ, followed by one piece *)
(* of text, which may hold entities.  A layout says how the children and   *)
(* attributes of the elements are arranged.                                *)
(***************************************************************************)
Digit == <<"1", "2", "3", "4", "5", "6", "7", "8", "9">>

PathText(path) == [i \in DOMAIN path |-> Digit[path[i]]]

\* pieces of text as written: plain, with entities, and malformed
Pieces ==
    {<<>>, <<"&", "a", "m", "p", ";">>, <<"&", "l", "t", ";", "b">>,
     <<">">>, <<"'", "&", "q", "u", "o", "t", ";">>, <<"&">>}

\* plain: fields in the order of the struct; late: lists before the other
\* fields; mixed: elements and attributes the model does not declare in
\* between; twice: a required field given twice; short: one missing
Layouts == {"plain", "late", "mixed", "twice", "short"}

Unknown == Element("meta", <<Attribute("name", <<"&">>)>>, <<>>, <<"&">>)

UnknownAttr == Attribute("playOrder", <<"&">>)

\* the children of an element: its required children and its list
Arrange(layout, required, decoy, list) ==
    CASE layout = "plain" -> required \o list
      [] layout = "late" -> list \o required
      [] layout = "mixed" ->
            <<Unknown>> \o list \o <<Unknown>> \o required \o <<Unknown>>
      [] layout = "twice" -> <<decoy>> \o required \o list
      [] layout = "short" -> Tail(required) \o list

ArrangeAttrs(layout, attrs) ==
    CASE layout = "mixed" -> <<UnknownAttr>> \o attrs \o <<UnknownAttr>>
      [] layout = "twice" -> <<Attribute(attrs[1].name, <<"z">>)>> \o attrs
      [] layout = "short" -> Tail(attrs)
      [] OTHER -> attrs

TextEl(tag, text) == Element(tag, <<>>, <<>>, text)

\* one level of a navigation tree: w points, of which point b, the first
\* or the second, holds the next level
Levels == {lv \in [w : 1..MaxWidth, b : {1, 2}] : lv.b <= lv.w}

Shapes == SeqsUpTo(Levels, MaxDepth)

RECURSIVE NavPointEls(_, _, _, _, _)
NavPointEls(shape, lvl, above, piece, layout) ==
    IF lvl > Len(shape) THEN <<>>
    ELSE
        [j \in 1..shape[lvl].w |->
            LET path == Append(above, j)
                label == Element("navLabel", <<>>,
                             <<TextEl("text", PathText(path) \o piece)>>, <<>>)
                content == Element("content",
                               ArrangeAttrs(layout,
                                   <<Attribute("src", PathText(path) \o piece)>>),
                               <<>>, <<>>)
                decoy == Element("navLabel", <<>>, <<TextEl("text", <<"z">>)>>, <<>>)
                nested == IF j = shape[lvl].b
                          THEN NavPointEls(shape, lvl + 1, path, piece, layout)
                          ELSE <<>>
            IN  Element("navPoint",
                        ArrangeAttrs(layout, <<Attribute("id", PathText(path))>>),
                        Arrange(layout, <<label, content>>, decoy, nested),
                        <<>>)]

NcxText(shape, piece, layout) ==
    Element("ncx", <<Attribute("version", <<"2">>)>>,
            <<Element("head", <<>>, <<Unknown>>, <<>>),
              Element("navMap", <<>>,
                      NavPointEls(shape, 1, <<>>, piece, layout), <<>>)>>,
            <<>>)

\* the numbers of items, itemrefs and guide references of a package
Counts == [items : 0..MaxWidth, refs : 0..MaxWidth, references : 0..MaxWidth]

OpfText(n, piece, layout) ==
    LET metadata ==
            Element("metadata", <<>>,
                Arrange(layout,
                        <<TextEl("dc:title", <<"T">> \o piece),
                          TextEl("dc:language", piece),
                          TextEl("dc:identifier", <<"I">> \o piece)>>,
                        TextEl("dc:title", <<"z">>), <<>>),
                <<>>)
        manifest ==
            Element("manifest", <<>>,
                [i \in 1..n.items |->
                    Element("item",
                        ArrangeAttrs(layout,
                            <<Attribute("id", <<"i", Digit[i]>> \o piece),
                              Attribute("media-type", <<"m", Digit[i]>>),
                              Attribute("href", <<"h", Digit[i]>> \o piece)>>),
                        <<>>, <<>>)],
                <<>>)
        spine ==
            Element("spine", <<Attribute("toc", <<"n">>)>>,
                [i \in 1..n.refs |->
                    Element("itemref",
                        <<Attribute("idref", <<"i", Digit[i]>> \o piece)>>,
                        <<>>, <<>>)],
                <<>>)
        guide ==
            Element("guide", <<>>,
                [i \in 1..n.references |->
                    Element("reference",
                        ArrangeAttrs(layout,
                            <<Attribute("type", <<"t", Digit[i]>>),
                              Attribute("title", <<"n", Digit[i]>> \o piece),
                              Attribute("href", <<"h", Digit[i]>> \o piece)>>),
                        <<>>, <<>>)],
                <<>>)
    IN  Element("package", <<Attribute("version", <<"2">>)>>,
                Arrange(layout, <<metadata, manifest>>, manifest, <<spine, guide>>),
                <<>>)

(***************************************************************************)
(* Parsing, serialising and parsing again                                  *)
(***************************************************************************)
NoResult == Err("none")
NoText == Element("none", <<>>, <<>>, <<>>)

NewDoc(kind, shape, piece, layout, text) ==
    [kind |-> kind, shape |-> shape, piece |-> piece, layout |-> layout,
     text |-> text, stage |-> "text", parsed |-> NoResult,
     written |-> NoText, again |-> NoResult]

InitXml ==
    /\ input = <<>>
    /\ epub = Epub_new(input)
    /\ lastRead = NoRead
    /\ item = NoItem
    /\ hrefOp = NoHrefOp
    /\ \E pc \in Pieces, ly \in Layouts :
          \/ \E sh \in Shapes :
                doc = NewDoc("ncx", sh, pc, ly, NcxText(sh, pc, ly))
          \/ \E n \in Counts :
                doc = NewDoc("opf", n, pc, ly, OpfText(n, pc, ly))

\* Resource<Opf>::content
content ==
    /\ doc.kind = "opf" /\ doc.stage = "text"
    /\ doc' = [doc EXCEPT !.stage = "parsed",
                          !.parsed = ReadContentDoc(doc.text)]
    /\ UNCHANGED <<input, epub, lastRead, item, hrefOp>>

\* Resource<DtbNcx>::toc
toc ==
    /\ doc.kind = "ncx" /\ doc.stage = "text"
    /\ doc' = [doc EXCEPT !.stage = "parsed",
                          !.parsed = ReadTableOfContents(doc.text)]
    /\ UNCHANGED <<input, epub, lastRead, item, hrefOp>>

\* XmlWrite::to_string of a parsed document
to_string ==
    /\ doc.stage = "parsed" /\ doc.parsed.tag = "Ok"
    /\ doc' = [doc EXCEPT !.stage = "written",
                          !.written = IF doc.kind = "opf"
                                      THEN WriteContentDoc(doc.parsed.data)
                                      ELSE WriteTableOfContents(doc.parsed.data)]
    /\ UNCHANGED <<input, epub, lastRead, item, hrefOp>>

\* XmlRead::from_str of the text written
from_str ==
    /\ doc.stage = "written"
    /\ doc' = [doc EXCEPT !.stage = "again",
                          !.again = IF doc.kind = "opf"
                                    THEN ReadContentDoc(doc.written)
                                    ELSE ReadTableOfContents(doc.written)]
    /\ UNCHANGED <<input, epub, lastRead, item, hrefOp>>

NextXml == content \/ toc \/ to_string \/ from_str

SpecXml == InitXml /\ [][NextXml]_vars

(***************************************************************************)
(* Properties                                                              *)
(***************************************************************************)
HasFragment(url) == "#" \in Range(url)

IsPrefixOf(r, u) == Len(r) <= Len(u) /\ SubSeq(u, 1, Len(r)) = r

\* the MIME string registered for each kind an accessor hands out
RegisteredMime ==
    <<"application/xhtml+xml", "text/css", "image/png", "image/jpeg",
      "image/gif", "image/svg+xml">>

Returned(got) == {i \in DOMAIN got : got[i].some}

\* C1 as stated: whatever the media-type string of an Item, exactly one of
\* its six accessors returns a reference.
C1_ExactlyOneAlways ==
    item.called => Cardinality(Returned(item.got)) = 1

\* C1 amended: at most one of the six accessors returns a reference; the
\* accessor of kind K returns one exactly when the media-type string equals
\* K's registered MIME string (so none does for any other string), the
\* reference carries the Item's href at kind K, and Items of equal
\* media-type string get references from the same accessors.
C1_AtMostOneByMediaType ==
    item.called =>
        /\ Cardinality(Returned(item.got)) <= 1
        /\ \A i \in 1..6 :
              /\ item.got[i].some <=> item.self.media_type = RegisteredMime[i]
              /\ item.got[i].some =>
                    item.got[i].href = Href_new(ItemKinds[i], item.self.href)
        /\ \A other \in Items :
              other.media_type = item.self.media_type =>
                 Returned(Accessors(other)) = Returned(item.got)

C1_Witness ==
    /\ item.called
    /\ item.self.media_type = "image/jpeg"
    /\ Returned(item.got) = {4}

\* C2: without_fragment keeps the kind; the path of the result is the part
\* of the path before its first '#', and holds no '#'; a path without '#'
\* is returned as it is.
C2_WithoutFragment ==
    hrefOp.called =>
        LET u == hrefOp.self.url
            r == hrefOp.got.url
        IN  /\ hrefOp.got.media = hrefOp.self.media
            /\ IsPrefixOf(r, u)
            /\ ~HasFragment(r)
            /\ HasFragment(u) => Len(r) < Len(u) /\ u[Len(r) + 1] = "#"
            /\ ~HasFragment(u) => r = u

C2_Witness ==
    /\ hrefOp.called
    /\ hrefOp.self.url = <<"a", "#", "#">>
    /\ hrefOp.got.url = <<"a">>

WasRead == lastRead.href # NoHref

\* C3: a read of a reference with path p asks the archive for the entry
\* named "OEBPS/" followed by p and for no other; it finds an entry exactly
\* when the container holds that name, and returns that entry's content.
\* The constants hold "content.opf" and "toc.ncx", without the root.
C3_PathResolution ==
    /\ Href_CONTENT.url = <<"c", "o", "n", "t", "e", "n", "t", ".", "o", "p", "f">>
    /\ Href_TOC.url = <<"t", "o", "c", ".", "n", "c", "x">>
    /\ WasRead =>
          LET name == <<"O", "E", "B", "P", "S", "/">> \o lastRead.href.url
          IN  /\ lastRead.asked = {name}
              /\ lastRead.ret.err = "ZipError::FileNotFound"
                    <=> name \notin DOMAIN input
              /\ lastRead.ret.tag = "Ok" => lastRead.ret.data = input[name].data

C3_Witness ==
    /\ WasRead
    /\ lastRead.href.url = <<"a">>
    /\ DOMAIN input = {<<"a">>}
    /\ lastRead.ret.err = "ZipError::FileNotFound"

\* C4 as stated: a read of a reference whose path holds a '#' fails with
\* EntryNotFound, whatever the entry names of the container.
C4_FragmentNeverFound ==
    WasRead /\ HasFragment(lastRead.href.url) =>
        lastRead.ret.err = "ZipError::FileNotFound"

\* C4 amended: a read of a reference whose path holds a '#' asks for the
\* entry named "OEBPS/" followed by the whole path, '#' included, and not
\* for the entry of the path without the fragment; it fails with
\* EntryNotFound whenever the container holds no entry of that whole name.
C4_FragmentKeptInLookup ==
    WasRead /\ HasFragment(lastRead.href.url) =>
        LET whole == Prefix \o lastRead.href.url
            bare == Prefix \o without_fragment(lastRead.href).url
        IN  /\ whole \in lastRead.asked
            /\ bare \notin lastRead.asked
            /\ whole \notin DOMAIN input =>
                  lastRead.ret = Err("ZipError::FileNotFound")

C4_Witness ==
    /\ WasRead
    /\ lastRead.href.url = <<"a", "#">>
    /\ DOMAIN input = {Prefix \o <<"a">>}
    /\ input[Prefix \o <<"a">>].readable
    /\ lastRead.ret.err = "ZipError::FileNotFound"

\* UTF-8 as Unicode defines it: the encoding of a scalar value, and the
\* byte sequences that are a concatenation of such encodings
Utf8Encode(cp) ==
    IF cp < 128 THEN <<cp>>
    ELSE IF cp < 2048 THEN <<192 + (cp \div 64), 128 + (cp % 64)>>
    ELSE IF cp < 65536 THEN
        <<224 + (cp \div 4096), 128 + ((cp \div 64) % 64), 128 + (cp % 64)>>
    ELSE <<240 + (cp \div 262144), 128 + ((cp \div 4096) % 64),
           128 + ((cp \div 64) % 64), 128 + (cp % 64)>>

IsScalar(cp) == cp >= 0 /\ cp <= 1114111 /\ ~(cp >= 55296 /\ cp <= 57343)

\* the scalar value a chunk of one to four bytes would stand for
ChunkValue(c) ==
    IF Len(c) = 1 THEN c[1]
    ELSE IF Len(c) = 2 THEN ((c[1] % 32) * 64) + (c[2] % 64)
    ELSE IF Len(c) = 3 THEN
        ((c[1] % 16) * 4096) + ((c[2] % 64) * 64) + (c[3] % 64)
    ELSE ((c[1] % 8) * 262144) + ((c[2] % 64) * 4096)
            + ((c[3] % 64) * 64) + (c[4] % 64)

IsEncodedScalar(c) == IsScalar(ChunkValue(c)) /\ Utf8Encode(ChunkValue(c)) = c

RECURSIVE WellFormedUtf8(_)
WellFormedUtf8(b) ==
    \/ b = <<>>
    \/ \E k \in 1..4 :
          /\ k <= Len(b)
          /\ IsEncodedScalar(SubSeq(b, 1, k))
          /\ WellFormedUtf8(SubSeq(b, k + 1, Len(b)))

Textual == {"Opf", "DtbNcx", "XHtml", "Css"}
Binary == {"Png", "Jpeg", "Gif", "Svg"}

\* the entry the last read resolved to, when there is a readable one
ReadEntryOk ==
    /\ WasRead
    /\ Prefix \o lastRead.href.url \in DOMAIN input
    /\ input[Prefix \o lastRead.href.url].readable

ReadData == input[Prefix \o lastRead.href.url].data

\* C5: a read at a textual kind of an entry whose bytes are not well-formed
\* UTF-8 fails with the decode error and returns no text at all; of an
\* entry whose bytes are well-formed UTF-8 it returns exactly those bytes.
C5_DecodeStrict ==
    ReadEntryOk /\ lastRead.href.media \in Textual =>
        /\ ~WellFormedUtf8(ReadData) => lastRead.ret = Err("FromUtf8Error")
        /\ WellFormedUtf8(ReadData) => lastRead.ret = Ok(ReadData)

C5_Witness ==
    /\ ReadEntryOk
    /\ lastRead.href.media = "XHtml"
    /\ ReadData = <<65, 194, 160, 255>>
    /\ lastRead.ret = Err("FromUtf8Error")

\* C6: a read at a binary kind of an entry that exists and is readable
\* returns exactly the bytes of the entry, well-formed UTF-8 or not; no
\* read at a binary kind ends in the decode error.
C6_BinaryPassThrough ==
    WasRead /\ lastRead.href.media \in Binary =>
        /\ ReadEntryOk => lastRead.ret = Ok(ReadData)
        /\ lastRead.ret.err # "FromUtf8Error"

C6_Witness ==
    /\ ReadEntryOk
    /\ lastRead.href.media = "Svg"
    /\ ~WellFormedUtf8(ReadData)
    /\ lastRead.ret = Ok(ReadData)

\* reads of containers of one entry, at every reference of the decoding runs
SampleReads ==
    {[c |-> [m \in {n} |-> e], h |-> h] :
        n \in {entry_path(hh) : hh \in Hrefs(DecodePaths)},
        e \in {Entry(d, TRUE) : d \in SeqsUpTo(ByteSamples, 2)},
        h \in Hrefs(DecodePaths)}

IsMissing(c, h) == Prefix \o h.url \notin DOMAIN c

IsUndecodable(c, h) ==
    /\ Prefix \o h.url \in DOMAIN c
    /\ c[Prefix \o h.url].readable
    /\ h.media \in Textual
    /\ ~WellFormedUtf8(c[Prefix \o h.url].data)

\* what reads return whose entry is absent, and whose entry does not decode
MissingOutcomes ==
    {read(Epub_new(x.c), x.h).ret : x \in {y \in SampleReads : IsMissing(y.c, y.h)}}

UndecodableOutcomes ==
    {read(Epub_new(x.c), x.h).ret :
        x \in {y \in SampleReads : IsUndecodable(y.c, y.h)}}

\* C7: the outcome of a read whose entry is absent is the outcome of no
\* read whose entry is present and does not decode, and the other way
\* round; both are errors.
C7_MissingVsCorrupt ==
    WasRead =>
        /\ IsMissing(input, lastRead.href) =>
              /\ lastRead.ret.tag = "Err"
              /\ lastRead.ret \notin UndecodableOutcomes
        /\ IsUndecodable(input, lastRead.href) =>
              /\ lastRead.ret.tag = "Err"
              /\ lastRead.ret \notin MissingOutcomes

C7_Witness ==
    /\ WasRead
    /\ IsUndecodable(input, lastRead.href)
    /\ lastRead.prev = "Err"
    /\ lastRead.ret \in UndecodableOutcomes

IdOf(el) ==
    LET ids == SelectSeq(el.attrs, LAMBDA a : a.name = "id")
    IN  ids[Len(ids)].value

NestedPointEls(el) == SelectSeq(el.kids, LAMBDA k : k.tag = "navPoint")

RECURSIVE Flatten(_)
Flatten(ss) == IF ss = <<>> THEN <<>> ELSE Head(ss) \o Flatten(Tail(ss))

\* the ids of the navPoint elements of a text in document order
RECURSIVE DocOrder(_)
DocOrder(els) ==
    Flatten([i \in DOMAIN els |->
                <<IdOf(els[i])>> \o DocOrder(NestedPointEls(els[i]))])

\* the labels of a NavPoint tree in pre-order
RECURSIVE PreOrder(_)
PreOrder(ps) ==
    Flatten([i \in DOMAIN ps |->
                <<ps[i].label.text>> \o PreOrder(ps[i].children)])

\* a list of NavPoints is the list of navPoint elements, point by point and
\* so at every depth; the label of a point is the id of its element
\* followed by the text the piece stands for
RECURSIVE Mirrors(_, _, _)
Mirrors(ps, els, tail) ==
    /\ Len(ps) = Len(els)
    /\ \A i \in DOMAIN ps :
          /\ ps[i].label.text = IdOf(els[i]) \o tail
          /\ Mirrors(ps[i].children, NestedPointEls(els[i]), tail)

NavMapEl == CHOOSE k \in Range(doc.text.kids) : k.tag = "navMap"

\* C10: the root list of a parsed navigation document holds the top-level
\* navPoints in document order, the children of every NavPoint are its
\* directly nested navPoints in document order, at every depth, and a
\* pre-order traversal visits the points in the order of the document.
C10_TreeOrder ==
    doc.kind = "ncx" /\ doc.stage # "text" /\ doc.parsed.tag = "Ok" =>
        LET tail == xml_unescape(doc.piece).data
            tops == NestedPointEls(NavMapEl)
        IN  /\ Mirrors(doc.parsed.data.map.points, tops, tail)
            /\ PreOrder(doc.parsed.data.map.points)
                  = [i \in DOMAIN DocOrder(tops) |-> DocOrder(tops)[i] \o tail]

C10_Witness ==
    /\ doc.kind = "ncx" /\ doc.stage = "parsed" /\ doc.parsed.tag = "Ok"
    /\ doc.layout = "mixed"
    /\ Len(doc.parsed.data.map.points) = 3
    /\ Len(doc.parsed.data.map.points[2].children) = 2
    /\ PreOrder(doc.parsed.data.map.points)
          = <<<<"1">>, <<"2">>, <<"2", "1">>, <<"2", "2">>, <<"3">>>>

====
